---- MODULE Spec2Model ----
(***************************************************************************)
(* Consistent-hashing ring of main.go: ConsistentHash with its operations  *)
(* NewConsistentHash, AddNode, RemoveNode and GetNode, driven by a caller  *)
(* that invokes them in any order.                                         *)
(*                                                                         *)
(* hashKey is the first four bytes of a SHA-1 digest.  The digest is a     *)
(* fixed function of the input string whose values the model does not      *)
(* compute: the variable digest holds one arbitrary such function, chosen  *)
(* in Init and never changed, over a position space 0..MaxHash that stands *)
(* for 0..2^32-1 (positions are only compared, never added).  Two strings  *)
(* may therefore collide, as they may under the truncated digest.          *)
(***************************************************************************)
EXTENDS Integers, Sequences, FiniteSets, TLC

\* ---------------------------------------------------------------- bounds
\* largest position of the ring space (stands for 2^32 - 1)
MaxHash == 3
\* largest replica count a ring is constructed with
MaxReplicas == 2
\* largest length of the position list the caller lets the ring grow to
MaxRing == 4

\* node identifiers the caller uses (non-empty strings), in a fixed order
AllNodes == <<"A", "B", "C">>
\* lookup keys the caller resolves; "A0" is also a virtual-node string
Keys == {"k", "A0"}
\* replica counts passed to the constructor; the code accepts any int
ReplicaChoices == (0 - 1)..MaxReplicas

Min2(a, b) == IF a < b THEN a ELSE b

\* the nodes the caller adds to and removes from a ring of r replicas
NodesFor(r) ==
    IF r <= 0 THEN {AllNodes[j] : j \in 1..Len(AllNodes)}
    ELSE {AllNodes[j] : j \in 1..Min2(Len(AllNodes), MaxRing \div r)}

Range(s) == {s[j] : j \in 1..Len(s)}

\* ------------------------------------------------------------ strconv.Itoa
Digit(d) == CASE d = 0 -> "0" [] d = 1 -> "1" [] d = 2 -> "2" [] d = 3 -> "3"
              [] d = 4 -> "4" [] d = 5 -> "5" [] d = 6 -> "6" [] d = 7 -> "7"
              [] d = 8 -> "8" [] OTHER -> "9"

RECURSIVE Itoa(_)
Itoa(i) ==
    IF i < 0 THEN "-" \o Itoa(0 - i)
    ELSE IF i < 10 THEN Digit(i)
    ELSE Itoa(i \div 10) \o Digit(i % 10)

\* the string AddNode hashes for replica i of node
VNodeKey(node, i) == node \o Itoa(i)

\* every string the caller can cause to be hashed on a ring of r replicas
HashInputs(r) ==
    {VNodeKey(n, i) : n \in NodesFor(r), i \in 0..(r - 1)} \cup Keys

VARIABLES
    ch,        \* the ConsistentHash: replicas, hashRing, nodeMap, actualNodes
    digest,    \* the truncated SHA-1 digest of every string that is hashed
    lastOp,    \* the caller's last call: operation, argument, result
    prev,      \* the ConsistentHash as it was before the last call
    removed,   \* nodes RemoveNode was called on and AddNode not since
    collided   \* an AddNode has placed a position that was already placed

vars == <<ch, digest, lastOp, prev, removed, collided>>

\* ------------------------------------------------------------------ hashKey
hashKey(key) == digest[key]

\* Go map read: the zero value "" when the key is absent
MapGet(m, h) == IF h \in DOMAIN m THEN m[h] ELSE ""

\* Go map write m[h] = v
MapPut(m, h, v) == [x \in (DOMAIN m) \cup {h} |-> IF x = h THEN v ELSE m[x]]

\* Go delete(m, h)
MapDelete(m, h) == [x \in (DOMAIN m) \ {h} |-> m[x]]

\* --------------------------------------------------------- NewConsistentHash
NewConsistentHash(r) ==
    [replicas |-> r, hashRing |-> <<>>, nodeMap |-> <<>>, actualNodes |-> {}]

\* ------------------------------------------------------------------ AddNode
\* sort.Slice(hashRing, less): ascending order, by insertion
RECURSIVE Insert(_, _)
Insert(s, x) ==
    IF s = <<>> THEN <<x>>
    ELSE IF x < Head(s) THEN <<x>> \o s
    ELSE <<Head(s)>> \o Insert(Tail(s), x)

RECURSIVE SortSlice(_)
SortSlice(s) ==
    IF s = <<>> THEN <<>> ELSE Insert(SortSlice(Tail(s)), Head(s))

\* the loop of AddNode from replica i on
RECURSIVE AddReplicas(_, _, _)
AddReplicas(c, node, i) ==
    IF i >= c.replicas THEN c
    ELSE LET hash == hashKey(VNodeKey(node, i))
         IN  AddReplicas([c EXCEPT !.hashRing = Append(@, hash),
                                   !.nodeMap = MapPut(@, hash, node)],
                         node, i + 1)

\* AddNode without the membership check of line 37
AddNodeNoGuard(c, node) ==
    LET c1 == [c EXCEPT !.actualNodes = @ \cup {node}]
        c2 == AddReplicas(c1, node, 0)
    IN  [c2 EXCEPT !.hashRing = SortSlice(@)]

\* AddNode that starts the owner map afresh instead of extending it
AddNodeResetsMap(c, node) ==
    IF node \in c.actualNodes THEN c
    ELSE LET c1 == [c EXCEPT !.actualNodes = @ \cup {node}, !.nodeMap = <<>>]
             c2 == AddReplicas(c1, node, 0)
         IN  [c2 EXCEPT !.hashRing = SortSlice(@)]

\* AddNode without the sort of line 48
AddNodeNoSort(c, node) ==
    IF node \in c.actualNodes THEN c
    ELSE AddReplicas([c EXCEPT !.actualNodes = @ \cup {node}], node, 0)

\* AddNode with the loop of line 42 starting at replica 1
AddNodeFromOne(c, node) ==
    IF node \in c.actualNodes THEN c
    ELSE LET c1 == [c EXCEPT !.actualNodes = @ \cup {node}]
             c2 == AddReplicas(c1, node, 1)
         IN  [c2 EXCEPT !.hashRing = SortSlice(@)]

\* the loop of AddNode skipping a position that has an owner already
RECURSIVE AddReplicasKeepsOwner(_, _, _)
AddReplicasKeepsOwner(c, node, i) ==
    IF i >= c.replicas THEN c
    ELSE LET hash == hashKey(VNodeKey(node, i))
         IN  IF hash \in DOMAIN c.nodeMap
             THEN AddReplicasKeepsOwner(c, node, i + 1)
             ELSE AddReplicasKeepsOwner(
                      [c EXCEPT !.hashRing = Append(@, hash),
                                !.nodeMap = MapPut(@, hash, node)],
                      node, i + 1)

AddNodeKeepsOwner(c, node) ==
    IF node \in c.actualNodes THEN c
    ELSE LET c1 == [c EXCEPT !.actualNodes = @ \cup {node}]
             c2 == AddReplicasKeepsOwner(c1, node, 0)
         IN  [c2 EXCEPT !.hashRing = SortSlice(@)]

\* AddNode refusing a ring that was constructed without replicas
AddNodeRejectsDegenerate(c, node) ==
    IF node \in c.actualNodes \/ c.replicas <= 0 THEN c
    ELSE LET c1 == [c EXCEPT !.actualNodes = @ \cup {node}]
             c2 == AddReplicas(c1, node, 0)
         IN  [c2 EXCEPT !.hashRing = SortSlice(@)]

AddNode(c, node) ==
    IF node \in c.actualNodes THEN c
    ELSE LET c1 == [c EXCEPT !.actualNodes = @ \cup {node}]
             c2 == AddReplicas(c1, node, 0)
         IN  [c2 EXCEPT !.hashRing = SortSlice(@)]

\* --------------------------------------------------------------- RemoveNode
\* the loop of RemoveNode over ring from index i on: nodeMap is read and
\* deleted from while the old ring is walked
RECURSIVE RemoveLoop(_, _, _, _, _)
RemoveLoop(ring, map, node, i, newRing) ==
    IF i > Len(ring) THEN [hashRing |-> newRing, nodeMap |-> map]
    ELSE IF MapGet(map, ring[i]) /= node
         THEN RemoveLoop(ring, map, node, i + 1, Append(newRing, ring[i]))
         ELSE RemoveLoop(ring, MapDelete(map, ring[i]), node, i + 1, newRing)

\* the loop of RemoveNode with the test of line 60 inverted
RECURSIVE RemoveLoopInverted(_, _, _, _, _)
RemoveLoopInverted(ring, map, node, i, newRing) ==
    IF i > Len(ring) THEN [hashRing |-> newRing, nodeMap |-> map]
    ELSE IF MapGet(map, ring[i]) = node
         THEN RemoveLoopInverted(ring, map, node, i + 1, Append(newRing, ring[i]))
         ELSE RemoveLoopInverted(ring, MapDelete(map, ring[i]), node, i + 1, newRing)

RemoveNodeInverted(c, node) ==
    IF node \notin c.actualNodes THEN c
    ELSE LET l == RemoveLoopInverted(c.hashRing, c.nodeMap, node, 1, <<>>)
         IN  [c EXCEPT !.actualNodes = @ \ {node},
                       !.hashRing = l.hashRing,
                       !.nodeMap = l.nodeMap]

\* the loop of RemoveNode leaving the walk at the first position of node
RECURSIVE RemoveLoopBreaks(_, _, _, _, _)
RemoveLoopBreaks(ring, map, node, i, newRing) ==
    IF i > Len(ring) THEN [hashRing |-> newRing, nodeMap |-> map]
    ELSE IF MapGet(map, ring[i]) /= node
         THEN RemoveLoopBreaks(ring, map, node, i + 1, Append(newRing, ring[i]))
         ELSE [hashRing |-> newRing, nodeMap |-> MapDelete(map, ring[i])]

RemoveNodeBreaks(c, node) ==
    IF node \notin c.actualNodes THEN c
    ELSE LET l == RemoveLoopBreaks(c.hashRing, c.nodeMap, node, 1, <<>>)
         IN  [c EXCEPT !.actualNodes = @ \ {node},
                       !.hashRing = l.hashRing,
                       !.nodeMap = l.nodeMap]

\* RemoveNode without the membership check of line 53 and with the test
\* of line 60 inverted
RemoveNodeNoGuard(c, node) ==
    LET l == RemoveLoopInverted(c.hashRing, c.nodeMap, node, 1, <<>>)
    IN  [c EXCEPT !.actualNodes = @ \ {node},
                  !.hashRing = l.hashRing,
                  !.nodeMap = l.nodeMap]

\* RemoveNode without the delete of line 63
RECURSIVE RemoveLoopKeepsMap(_, _, _, _, _)
RemoveLoopKeepsMap(ring, map, node, i, newRing) ==
    IF i > Len(ring) THEN [hashRing |-> newRing, nodeMap |-> map]
    ELSE IF MapGet(map, ring[i]) /= node
         THEN RemoveLoopKeepsMap(ring, map, node, i + 1, Append(newRing, ring[i]))
         ELSE RemoveLoopKeepsMap(ring, map, node, i + 1, newRing)

RemoveNodeKeepsMap(c, node) ==
    IF node \notin c.actualNodes THEN c
    ELSE LET l == RemoveLoopKeepsMap(c.hashRing, c.nodeMap, node, 1, <<>>)
         IN  [c EXCEPT !.actualNodes = @ \ {node},
                       !.hashRing = l.hashRing,
                       !.nodeMap = l.nodeMap]

RemoveNode(c, node) ==
    IF node \notin c.actualNodes THEN c
    ELSE LET l == RemoveLoop(c.hashRing, c.nodeMap, node, 1, <<>>)
         IN  [c EXCEPT !.actualNodes = @ \ {node},
                       !.hashRing = l.hashRing,
                       !.nodeMap = l.nodeMap]

\* ------------------------------------------------------------------ GetNode
\* sort.Search(n, f): binary search for the smallest index in 0..n with
\* f true from there on; f is given as a function on 0..n-1
RECURSIVE SearchLoop(_, _, _)
SearchLoop(f, i, j) ==
    IF i >= j THEN i
    ELSE LET h == (i + j) \div 2
         IN  IF ~f[h] THEN SearchLoop(f, h + 1, j) ELSE SearchLoop(f, i, h)

SortSearch(n, f) == SearchLoop(f, 0, n)

\* GetNode without the wrap of lines 78-80: the last position instead
GetNodeNoWrap(c, key) ==
    IF Len(c.hashRing) = 0 THEN ""
    ELSE LET hash == hashKey(key)
             n == Len(c.hashRing)
             idx == SortSearch(n, [i \in 0..(n - 1) |-> c.hashRing[i + 1] >= hash])
             idx2 == IF idx = n THEN n - 1 ELSE idx
         IN  MapGet(c.nodeMap, c.hashRing[idx2 + 1])

\* GetNode searching for the first position strictly above the hash
GetNodeStrict(c, key) ==
    IF Len(c.hashRing) = 0 THEN ""
    ELSE LET hash == hashKey(key)
             n == Len(c.hashRing)
             idx == SortSearch(n, [i \in 0..(n - 1) |-> c.hashRing[i + 1] > hash])
             idx2 == IF idx = n THEN 0 ELSE idx
         IN  MapGet(c.nodeMap, c.hashRing[idx2 + 1])

\* GetNode without the length check of lines 71-73: indexing the empty
\* ring is a run-time panic
GetNodeNoEmptyCheck(c, key) ==
    LET hash == hashKey(key)
        n == Len(c.hashRing)
        idx == SortSearch(n, [i \in 0..(n - 1) |-> c.hashRing[i + 1] >= hash])
        idx2 == IF idx = n THEN 0 ELSE idx
    IN  IF idx2 >= n THEN "panic: index out of range"
        ELSE MapGet(c.nodeMap, c.hashRing[idx2 + 1])

GetNode(c, key) ==
    IF Len(c.hashRing) = 0 THEN ""
    ELSE LET hash == hashKey(key)
             n == Len(c.hashRing)
             idx == SortSearch(n, [i \in 0..(n - 1) |-> c.hashRing[i + 1] >= hash])
             idx2 == IF idx = n THEN 0 ELSE idx
         IN  MapGet(c.nodeMap, c.hashRing[idx2 + 1])

\* ------------------------------------------------------------------ caller
\* AddNode(node) places a position that is already in the ring, or the same
\* position twice
Collides(c, node) ==
    /\ node \notin c.actualNodes
    /\ \E i \in 0..(c.replicas - 1) :
          \/ hashKey(VNodeKey(node, i)) \in Range(c.hashRing)
          \/ \E j \in 0..(c.replicas - 1) :
                i /= j /\ hashKey(VNodeKey(node, i)) = hashKey(VNodeKey(node, j))

Init ==
    \E r \in ReplicaChoices :
        /\ ch = NewConsistentHash(r)
        /\ digest \in [HashInputs(r) -> 0..MaxHash]
        /\ lastOp = [op |-> "NewConsistentHash", arg |-> "", ret |-> ""]
        /\ prev = NewConsistentHash(r)
        /\ removed = {}
        /\ collided = FALSE

CallAddNode(node) ==
    /\ node \in ch.actualNodes \/ Len(ch.hashRing) + ch.replicas <= MaxRing
    /\ ch' = AddNode(ch, node)
    /\ prev' = ch
    /\ lastOp' = [op |-> "AddNode", arg |-> node, ret |-> ""]
    /\ removed' = removed \ {node}
    /\ collided' = (collided \/ Collides(ch, node))
    /\ UNCHANGED digest

CallRemoveNode(node) ==
    /\ ch' = RemoveNode(ch, node)
    /\ prev' = ch
    /\ lastOp' = [op |-> "RemoveNode", arg |-> node, ret |-> ""]
    /\ removed' = removed \cup {node}
    /\ UNCHANGED <<digest, collided>>

\* GetNode storing the zero value it reads for a position without owner
CallGetNodeStores(key) ==
    /\ lastOp' = [op |-> "GetNode", arg |-> key, ret |-> GetNode(ch, key)]
    /\ prev' = ch
    /\ ch' = [ch EXCEPT !.nodeMap =
                 [h \in (DOMAIN @) \cup Range(ch.hashRing) |-> MapGet(@, h)]]
    /\ UNCHANGED <<digest, removed, collided>>

CallGetNode(key) ==
    /\ lastOp' = [op |-> "GetNode", arg |-> key, ret |-> GetNode(ch, key)]
    /\ prev' = ch
    /\ UNCHANGED <<ch, digest, removed, collided>>

Next ==
    \/ \E node \in NodesFor(ch.replicas) : CallAddNode(node)
    \/ \E node \in NodesFor(ch.replicas) : CallRemoveNode(node)
    \/ \E key \in Keys : CallGetNode(key)

Spec == Init /\ [][Next]_vars

TypeOK ==
    /\ ch.replicas \in ReplicaChoices
    /\ ch.hashRing \in Seq(0..MaxHash)
    /\ ch.actualNodes \subseteq NodesFor(ch.replicas)

\* ------------------------------------------------------------------ claims
\* the positions of ring at or after hash, clockwise before the wrap
AtOrAfter(ring, hash) == {p \in Range(ring) : p >= hash}

SetMin(S) == CHOOSE p \in S : \A q \in S : p <= q

\* the nearest position of the set S clockwise from hash, wrapping
Successor(S, hash) ==
    IF {p \in S : p >= hash} /= {} THEN SetMin({p \in S : p >= hash})
    ELSE SetMin(S)

\* the last call was RemoveNode(X) on a member X
RemovedMember ==
    lastOp.op = "RemoveNode" /\ lastOp.arg \in prev.actualNodes

\* the last call was AddNode(X) on a non-member X
AddedNonMember ==
    lastOp.op = "AddNode" /\ lastOp.arg \notin prev.actualNodes

\* C1: after RemoveNode(X), and until X is added again, GetNode returns X
\* for no key, whatever calls came before and whether or not positions
\* collided.
C1_RemovedNeverReturned ==
    /\ \A X \in removed : \A key \in Keys : GetNode(ch, key) /= X
    /\ lastOp.op = "GetNode" => lastOp.ret \notin removed

\* a member that keys resolved to has just been removed from a ring in
\* which positions collided, and positions remain
C1_Witness ==
    /\ RemovedMember
    /\ collided
    /\ ch.hashRing /= <<>>
    /\ \E key \in Keys : GetNode(prev, key) = lastOp.arg

\* C2: on a ring of a positive replica count, while the member set is not
\* empty GetNode returns the empty string for no key.
C2_Coverage ==
    (ch.replicas >= 1 /\ ch.actualNodes /= {}) =>
        \A key \in Keys : GetNode(ch, key) /= ""

\* C3: when no positions have collided, RemoveNode(X) leaves every key that
\* resolved to a node other than X resolving to the same node.
C3_MinimalDisruption ==
    (lastOp.op = "RemoveNode" /\ ~collided) =>
        \A key \in Keys :
            GetNode(prev, key) /= lastOp.arg =>
                GetNode(ch, key) = GetNode(prev, key)

\* one of three members without collisions has just been removed; one key
\* resolved to it and another key resolved to another member
C3_Witness ==
    /\ RemovedMember
    /\ ~collided
    /\ Cardinality(prev.actualNodes) = 3
    /\ \E key \in Keys : GetNode(prev, key) = lastOp.arg
    /\ \E key \in Keys : GetNode(prev, key) \in ch.actualNodes

\* the positions of c that another node than X owns
Surviving(c, X) == {p \in Range(c.hashRing) : MapGet(c.nodeMap, p) /= X}

\* C4: after RemoveNode(X) with another member remaining, every key that
\* resolved to X resolves to the owner of the next surviving position
\* clockwise from its hash: the smallest position of another owner at or
\* after the hash, or the smallest such position of all.
C4_NextSurvivor ==
    (RemovedMember /\ ch.actualNodes /= {}
        /\ Surviving(prev, lastOp.arg) /= {}) =>
        \A key \in Keys :
            GetNode(prev, key) = lastOp.arg =>
                GetNode(ch, key) =
                    MapGet(prev.nodeMap,
                           Successor(Surviving(prev, lastOp.arg), hashKey(key)))

\* C5: AddNode(X) on a member X changes nothing of the ring, and a second
\* AddNode(X) right after any AddNode(X) yields the state of the first.
C5_AddNodeIdempotent ==
    /\ (lastOp.op = "AddNode" /\ lastOp.arg \in prev.actualNodes) => ch = prev
    /\ lastOp.op = "AddNode" => AddNode(ch, lastOp.arg) = ch

\* AddNode(X) has just been called on a member X of a ring with positions
C5_Witness ==
    /\ lastOp.op = "AddNode"
    /\ lastOp.arg \in prev.actualNodes
    /\ Len(prev.hashRing) >= 2

\* C6: GetNode changes nothing of the ring, and its result is the one a
\* further GetNode of the same key returns.
C6_GetNodeReadOnly ==
    lastOp.op = "GetNode" =>
        /\ ch = prev
        /\ lastOp.ret = GetNode(ch, lastOp.arg)

\* GetNode has just returned a member, and on a ring with a position that
\* has no owner
C6_Witness ==
    /\ lastOp.op = "GetNode"
    /\ lastOp.ret \in ch.actualNodes
    /\ \E p \in Range(ch.hashRing) : p \notin DOMAIN ch.nodeMap

\* C7: on a ring with positions, a key whose hash is above every position
\* resolves to the owner of the smallest position.
C7_Wraparound ==
    \A key \in Keys :
        (ch.hashRing /= <<>> /\ AtOrAfter(ch.hashRing, hashKey(key)) = {}) =>
            GetNode(ch, key) = MapGet(ch.nodeMap, SetMin(Range(ch.hashRing)))

\* a key hashes above every position of a ring whose smallest and largest
\* positions have different owners
C7_Witness ==
    /\ ch.hashRing /= <<>>
    /\ \E key \in Keys :
          /\ AtOrAfter(ch.hashRing, hashKey(key)) = {}
          /\ GetNode(ch, key) \in ch.actualNodes
          /\ GetNode(ch, key) /= MapGet(ch.nodeMap, ch.hashRing[Len(ch.hashRing)])

\* C8: on a ring with positions, a key with a position at or after its
\* hash resolves to the owner of the smallest such position.
C8_SuccessorLookup ==
    \A key \in Keys :
        AtOrAfter(ch.hashRing, hashKey(key)) /= {} =>
            GetNode(ch, key) =
                MapGet(ch.nodeMap, SetMin(AtOrAfter(ch.hashRing, hashKey(key))))

\* a key hashes exactly onto a position that is neither the smallest nor
\* the largest, and whose owner differs from the owner of the next one
C8_Witness ==
    \E key \in Keys : \E j \in 2..(Len(ch.hashRing) - 1) :
        /\ ch.hashRing[j] = hashKey(key)
        /\ ch.hashRing[j - 1] < ch.hashRing[j]
        /\ ch.hashRing[j] < ch.hashRing[j + 1]
        /\ GetNode(ch, key) \in ch.actualNodes
        /\ GetNode(ch, key) /= MapGet(ch.nodeMap, ch.hashRing[j + 1])

\* C9: when no positions have collided, after AddNode(X) on a non-member X
\* every key resolves to X or to the node it resolved to before.
C9_AddRemapsOnlyToNew ==
    (AddedNonMember /\ ~collided) =>
        \A key \in Keys :
            \/ GetNode(ch, key) = lastOp.arg
            \/ GetNode(ch, key) = GetNode(prev, key)

\* a third node has just been added without collision; one key moved to it
\* and another key stayed with the member it had
C9_Witness ==
    /\ AddedNonMember
    /\ ~collided
    /\ Cardinality(ch.actualNodes) = 3
    /\ \E key \in Keys :
          GetNode(ch, key) = lastOp.arg /\ GetNode(prev, key) /= lastOp.arg
    /\ \E key \in Keys :
          GetNode(ch, key) /= lastOp.arg /\ GetNode(ch, key) \in prev.actualNodes

\* C10: on a ring with no positions GetNode returns the empty string for
\* every key and changes nothing of the ring.
C10_EmptyRing ==
    /\ Len(ch.hashRing) = 0 => \A key \in Keys : GetNode(ch, key) = ""
    /\ (lastOp.op = "GetNode" /\ Len(prev.hashRing) = 0) =>
           lastOp.ret = "" /\ ch = prev

\* GetNode has just been called on a ring of a positive replica count that
\* was emptied by RemoveNode
C10_Witness ==
    /\ lastOp.op = "GetNode"
    /\ Len(prev.hashRing) = 0
    /\ prev.replicas >= 1
    /\ removed /= {}
    /\ lastOp.ret = ""

\* C11: RemoveNode(X) on a node X that is not a member changes nothing of
\* the ring: position list, owner map and member set stay as they were.
C11_RemoveNonMemberNoOp ==
    (lastOp.op = "RemoveNode" /\ lastOp.arg \notin prev.actualNodes) =>
        /\ ch.hashRing = prev.hashRing
        /\ ch.nodeMap = prev.nodeMap
        /\ ch.actualNodes = prev.actualNodes

\* RemoveNode has just been called on a non-member of a ring that has
\* members, and a position without owner
C11_Witness ==
    /\ lastOp.op = "RemoveNode"
    /\ lastOp.arg \notin prev.actualNodes
    /\ prev.actualNodes /= {}
    /\ \E p \in Range(prev.hashRing) : p \notin DOMAIN prev.nodeMap

Sorted(s) == \A i \in 1..(Len(s) - 1) : s[i] <= s[i + 1]

\* s is t with some of its elements left out, the others in their order
RECURSIVE IsSubsequence(_, _)
IsSubsequence(s, t) ==
    IF s = <<>> THEN TRUE
    ELSE IF t = <<>> THEN FALSE
    ELSE IF Head(s) = Head(t) THEN IsSubsequence(Tail(s), Tail(t))
    ELSE IsSubsequence(s, Tail(t))

\* C12: the position list is sorted ascending in every reachable state,
\* and RemoveNode leaves the remaining positions in the order they had.
C12_RingSorted ==
    /\ Sorted(ch.hashRing)
    /\ lastOp.op = "RemoveNode" => IsSubsequence(ch.hashRing, prev.hashRing)

\* a member has just been removed whose position lay between two
\* positions that remain, after an AddNode whose positions did not arrive
\* in ascending order
C12_Witness ==
    /\ RemovedMember
    /\ Len(ch.hashRing) >= 2
    /\ \E j \in 2..(Len(prev.hashRing) - 1) :
          /\ MapGet(prev.nodeMap, prev.hashRing[j]) = lastOp.arg
          /\ prev.hashRing[j - 1] < prev.hashRing[j]
          /\ prev.hashRing[j] < prev.hashRing[j + 1]
          /\ prev.hashRing[j - 1] \in Range(ch.hashRing)
          /\ prev.hashRing[j + 1] \in Range(ch.hashRing)
    /\ \E n \in ch.actualNodes :
          hashKey(VNodeKey(n, 0)) < hashKey(VNodeKey(lastOp.arg, 0))

\* C13: in every reachable state every value of the position list has an
\* entry in the owner map: no listed position is without an owner.
C13_EveryPositionOwned ==
    \A p \in Range(ch.hashRing) : p \in DOMAIN ch.nodeMap

\* the number of entries of the position list of c that node owns
OwnedCount(c, node) ==
    Cardinality({j \in 1..Len(c.hashRing) :
                    MapGet(c.nodeMap, c.hashRing[j]) = node})

\* a node is a member exactly if it owns replicas listed positions, and the
\* list has replicas entries for each member
ReplicasPerMember ==
    /\ \A node \in NodesFor(ch.replicas) :
          node \in ch.actualNodes <=> OwnedCount(ch, node) = ch.replicas
    /\ Len(ch.hashRing) = ch.replicas * Cardinality(ch.actualNodes)

\* C14 as stated: when no positions have collided, a node is a member if
\* and only if exactly replicaCount listed positions are owned by it, and
\* the list has length replicaCount times the number of members.
C14_ReplicaCountAnyRing ==
    ~collided => ReplicasPerMember

\* C14 as amended: on a ring constructed with a replica count of at least
\* one, when no positions have collided, a node is a member if and only if
\* exactly replicaCount listed positions are owned by it, and the list has
\* length replicaCount times the number of members.
C14_ReplicaCount ==
    (ch.replicas >= 1 /\ ~collided) => ReplicasPerMember

\* a ring of two replicas without collisions from which one of two members
\* has just been removed
C14_Witness ==
    /\ ch.replicas = 2
    /\ ~collided
    /\ RemovedMember
    /\ Cardinality(prev.actualNodes) = 2
    /\ Len(ch.hashRing) = 2

\* the number of entries of the sequence s equal to h
Count(s, h) == Cardinality({j \in 1..Len(s) : s[j] = h})

\* the positions AddNode computes for node on the ring c
NewPositions(c, node) ==
    {hashKey(VNodeKey(node, i)) : i \in 0..(c.replicas - 1)}

\* the number of replicas of node that hash to h
Placed(c, node, h) ==
    Cardinality({i \in 0..(c.replicas - 1) : hashKey(VNodeKey(node, i)) = h})

\* C15: when AddNode(X) computes a position that is already in the ring,
\* or twice for X, the owner map holds X for it, the position list holds
\* the value once more for each replica placed there (at least twice in
\* all), and every key hashing onto it resolves to X.
C15_CollisionPolicy ==
    AddedNonMember =>
        \A h \in NewPositions(prev, lastOp.arg) :
            (h \in Range(prev.hashRing) \/ Placed(prev, lastOp.arg, h) >= 2) =>
                /\ MapGet(ch.nodeMap, h) = lastOp.arg
                /\ Count(ch.hashRing, h) =
                       Count(prev.hashRing, h) + Placed(prev, lastOp.arg, h)
                /\ Count(ch.hashRing, h) >= 2
                /\ \A key \in Keys :
                       hashKey(key) = h => GetNode(ch, key) = lastOp.arg

\* a node has just been added onto a position that another member owned,
\* and a key hashes onto that position
C15_Witness ==
    /\ AddedNonMember
    /\ \E h \in NewPositions(prev, lastOp.arg) :
          /\ h \in Range(prev.hashRing)
          /\ MapGet(prev.nodeMap, h) \in prev.actualNodes
          /\ \E key \in Keys : hashKey(key) = h /\ GetNode(prev, key) /= lastOp.arg

\* C16: a ring constructed with replicaCount <= 0 is accepted and stays
\* empty: AddNode records the member and places no position, so the
\* position list and the owner map are empty after any calls and GetNode
\* returns the empty string for every key.
C16_DegenerateRing ==
    ch.replicas <= 0 =>
        /\ ch.hashRing = <<>>
        /\ ch.nodeMap = <<>>
        /\ \A key \in Keys : GetNode(ch, key) = ""
        /\ lastOp.op = "AddNode" => lastOp.arg \in ch.actualNodes
        /\ lastOp.op = "GetNode" => lastOp.ret = ""

\* GetNode has just been called on a ring of a negative replica count that
\* has a member, after another node was removed
C16_Witness ==
    /\ ch.replicas < 0
    /\ lastOp.op = "GetNode"
    /\ ch.actualNodes /= {}
    /\ \E X \in removed : X \notin ch.actualNodes

\* C17: in every reachable state, collisions included, every key of the
\* owner map occurs in the position list and every value of the owner map
\* is a member, so GetNode returns the empty string or a member.
C17_OwnersAreMembers ==
    /\ DOMAIN ch.nodeMap \subseteq Range(ch.hashRing)
    /\ \A h \in DOMAIN ch.nodeMap : ch.nodeMap[h] \in ch.actualNodes
    /\ \A key \in Keys : GetNode(ch, key) \in ch.actualNodes \cup {""}
    /\ lastOp.op = "GetNode" => lastOp.ret \in ch.actualNodes \cup {""}

\* a member has just been removed from a ring in which positions collided;
\* the ring has a position without owner and a key resolves to a member
C17_Witness ==
    /\ RemovedMember
    /\ collided
    /\ \E p \in Range(ch.hashRing) : p \notin DOMAIN ch.nodeMap
    /\ \E key \in Keys : GetNode(ch, key) \in ch.actualNodes

\* C18 as stated: for a non-member X, AddNode(X) followed at once by
\* RemoveNode(X) restores position list, owner map and member set.  The
\* state is the one AddNode(X) has left; RemoveNode(X) is applied to it.
C18_RoundTripAlways ==
    AddedNonMember => RemoveNode(ch, lastOp.arg) = prev

\* C18 as amended: for a non-member X whose positions are neither in the
\* position list already nor equal to one another, AddNode(X) followed at
\* once by RemoveNode(X) restores position list, owner map and member set,
\* so every key resolves as before.
C18_RoundTrip ==
    (AddedNonMember /\ ~Collides(prev, lastOp.arg)) =>
        /\ RemoveNode(ch, lastOp.arg) = prev
        /\ \A key \in Keys :
               GetNode(RemoveNode(ch, lastOp.arg), key) = GetNode(prev, key)

\* a node has just been added without collision between the positions of
\* other members, and a key has moved to it
C18_Witness ==
    /\ AddedNonMember
    /\ ~Collides(prev, lastOp.arg)
    /\ \E j \in 2..(Len(ch.hashRing) - 1) :
          /\ MapGet(ch.nodeMap, ch.hashRing[j]) = lastOp.arg
          /\ MapGet(ch.nodeMap, ch.hashRing[j - 1]) \in prev.actualNodes
          /\ MapGet(ch.nodeMap, ch.hashRing[j + 1]) \in prev.actualNodes
    /\ \E key \in Keys :
          GetNode(ch, key) = lastOp.arg /\ GetNode(prev, key) \in prev.actualNodes

\* C19 as stated: for distinct non-members X and Y, AddNode(X) then
\* AddNode(Y) yields the ring that AddNode(Y) then AddNode(X) yields.  The
\* state is the one AddNode(X) has left; the other calls are applied to it
\* and to the state before.
C19_OrderIndependentAlways ==
    AddedNonMember =>
        \A Y \in NodesFor(ch.replicas) \ ch.actualNodes :
            AddNode(ch, Y) = AddNode(AddNode(prev, Y), lastOp.arg)

\* C19 as amended: for distinct non-members X and Y of which no position
\* of X equals a position of Y, AddNode(X) then AddNode(Y) yields the
\* position list, owner map and member set that AddNode(Y) then AddNode(X)
\* yields, so every key resolves alike in both.
C19_OrderIndependent ==
    AddedNonMember =>
        \A Y \in NodesFor(ch.replicas) \ ch.actualNodes :
            NewPositions(prev, lastOp.arg) \cap NewPositions(prev, Y) = {} =>
                /\ AddNode(ch, Y) = AddNode(AddNode(prev, Y), lastOp.arg)
                /\ \A key \in Keys :
                       GetNode(AddNode(ch, Y), key) =
                           GetNode(AddNode(AddNode(prev, Y), lastOp.arg), key)

\* X has just been added to a ring with a member, and a non-member Y has a
\* position below one of X and none in common with X
C19_Witness ==
    /\ AddedNonMember
    /\ prev.actualNodes /= {}
    /\ ch.replicas >= 1
    /\ \E Y \in NodesFor(ch.replicas) \ ch.actualNodes :
          /\ NewPositions(prev, lastOp.arg) \cap NewPositions(prev, Y) = {}
          /\ \E x \in NewPositions(prev, lastOp.arg) :
                \E y \in NewPositions(prev, Y) : y < x
          /\ \E key \in Keys : GetNode(AddNode(ch, Y), key) = Y
====
